---------------------------- MODULE Spec2Model ----------------------------
(***************************************************************************)
(* Model of the two drgn scan scripts of kernel-contiguous:                *)
(*   src/drgn_scripts/scan_unmovable.py           (the coarse walker)      *)
(*   src/drgn_scripts/scan_unmovable_johannes.py  (the fine walker)        *)
(*                                                                         *)
(* Geometry.  The scripts fix pageblock_order = 9 (512 frames per block)   *)
(* and MAX_ORDER = 11.  The model keeps every relation between the         *)
(* constants (a block is 1 << pageblock_order frames, MAX_ORDER is         *)
(* pageblock_order + 2, the literals 512 / 511 / 9 / 10 of the scripts are *)
(* pageblock_nr_pages, pageblock_nr_pages - 1, pageblock_order and         *)
(* MAX_ORDER - 1) and scales pageblock_order down so that every frame of a *)
(* block can carry arbitrary metadata.                                     *)
(***************************************************************************)
EXTENDS Integers, Sequences, FiniteSets, TLC

VARIABLES
    mem,            \* the frames frozen in a snapshot: PFN -> page metadata
    online,         \* per pageblock (one subsection): pfn_online
    max_pfn,        \* prog["max_pfn"]
    boundary_pfn,   \* get_boundary()
    pc,             \* position of the coarse script
    pfn,
    page,           \* the page last returned by pfn_to_page
    block_start_pfn,
    block_end_pfn,
    unmovable_pages,
    movable_pages,
    reserved_pages,
    movable_2mb_pfns,
    free_4mb_pfns,
    regular_blocks,
    unmovable_pages_in_unmovable_blocks,
    movable_pages_in_unmovable_blocks,
    free_pages_in_unmovable_blocks,
    pcts,           \* the six percentiles of lines 305-310
    movable_blocks_by_size,
    free_blocks_by_size,
    run,            \* 1: the first scan of the snapshot, 2: the scan repeated
    first,          \* the report of the first scan, kept for the second
    mode,           \* the script run: "coarse" or "fine"
    sections,       \* per memory section: SECTION_HAS_MEM_MAP and online
    \* the fine script (scan_unmovable_johannes.py)
    i, mt, t,
    buddy, lru, reserved, slab, kmem, other,
    block_has_nonmovable,
    slablru_in_unmovable, nonslab_in_reclaimable, nonlru_in_movable,
    unmovable_with_slablru, movable_with_nonlru, reclaimable_with_nonslab,
    blocks_with_nonmovable, pb, types

scanvars == <<pfn, page, block_start_pfn, block_end_pfn, unmovable_pages,
              movable_pages, reserved_pages>>
aggvars == <<movable_2mb_pfns, free_4mb_pfns, regular_blocks,
             unmovable_pages_in_unmovable_blocks,
             movable_pages_in_unmovable_blocks>>
postvars == <<free_pages_in_unmovable_blocks, pcts, movable_blocks_by_size,
              free_blocks_by_size>>
envvars == <<mem, online, max_pfn, mode, sections>>
blockvars == <<buddy, lru, reserved, slab, kmem, other, block_has_nonmovable>>
tallyvars == <<slablru_in_unmovable, nonslab_in_reclaimable, nonlru_in_movable,
               unmovable_with_slablru, movable_with_nonlru,
               reclaimable_with_nonslab, blocks_with_nonmovable, pb, types>>
finevars == <<i, mt, t, blockvars, tallyvars>>
coarsevars == <<boundary_pfn, block_start_pfn, block_end_pfn, unmovable_pages,
                movable_pages, reserved_pages, aggvars, postvars, run, first>>
vars == <<envvars, boundary_pfn, pc, scanvars, aggvars, postvars, run, first,
          finevars>>

(***************************************************************************)
(* Bounds of the model.                                                    *)
(***************************************************************************)
pageblock_order == 2        \* 9 in the scripts; see the header
NBlocks == 2                \* pageblocks below the largest max_pfn

(***************************************************************************)
(* Arithmetic helpers.                                                     *)
(***************************************************************************)
RECURSIVE Pow2(_)
Pow2(n) == IF n <= 0 THEN 1 ELSE 2 * Pow2(n - 1)

Min(a, b) == IF a < b THEN a ELSE b

RECURSIVE BitXor(_, _)
BitXor(a, b) ==
    IF a = 0 THEN b
    ELSE IF b = 0 THEN a
    ELSE (((a % 2) + (b % 2)) % 2) + 2 * BitXor(a \div 2, b \div 2)

RECURSIVE BitAnd(_, _)
BitAnd(a, b) ==
    IF a = 0 \/ b = 0 THEN 0
    ELSE ((a % 2) * (b % 2)) + 2 * BitAnd(a \div 2, b \div 2)

(***************************************************************************)
(* Memory layout constants.                                                *)
(***************************************************************************)
pageblock_nr_pages == Pow2(pageblock_order)
MAX_ORDER == pageblock_order + 2
MAX_ORDER_NR_PAGES == Pow2(MAX_ORDER - 1)
NO_BOUNDARY == 2147483647   \* stands for 2 ** 64: above every PFN

PFN_SECTION_SHIFT == pageblock_order + 6       \* 27 - 12 = 9 + 6
PAGES_PER_SECTION == Pow2(PFN_SECTION_SHIFT)
PAGES_PER_SUBSECTION == Pow2(pageblock_order)   \* 21 - 12 = 9

MaxPfn == NBlocks * pageblock_nr_pages

align(x, a) == IF x % a # 0 THEN x + (a - (x % a)) ELSE x

(***************************************************************************)
(* Page metadata, as far as the coarse script reads it.                    *)
(*   buddy          page_type carries the buddy marker        (PageBuddy)  *)
(*   private        page.private, the free order of a buddy page           *)
(*   head           PG_head is set                                         *)
(*   tail           compound_head & 1                                      *)
(*   compound_order page[1].compound_order of a head page                  *)
(*   reserved, lru  PG_reserved, PG_lru                                    *)
(*   movable        mapping & PAGE_MAPPING_FLAGS = PAGE_MAPPING_MOVABLE    *)
(* Any order value from 0 to MAX_ORDER can be read (MAX_ORDER stands for   *)
(* every unreliable value >= MAX_ORDER); a field the script does not read  *)
(* for a page of that shape is left at its default.                        *)
(***************************************************************************)
Orders == 0 .. MAX_ORDER

Pages ==
    [buddy : {TRUE}, private : Orders, head : {FALSE}, tail : {FALSE},
     compound_order : {0}, reserved : BOOLEAN, lru : BOOLEAN, movable : {FALSE}]
    \cup
    [buddy : {FALSE}, private : {0}, head : {TRUE}, tail : {FALSE},
     compound_order : Orders, reserved : BOOLEAN, lru : BOOLEAN, movable : {FALSE}]
    \cup
    [buddy : {FALSE}, private : {0}, head : {FALSE}, tail : {TRUE},
     compound_order : {0}, reserved : BOOLEAN, lru : BOOLEAN, movable : {FALSE}]
    \cup
    [buddy : {FALSE}, private : {0}, head : {FALSE}, tail : {FALSE},
     compound_order : {0}, reserved : BOOLEAN, lru : BOOLEAN, movable : BOOLEAN]

NoPage == [buddy |-> FALSE, private |-> 0, head |-> FALSE, tail |-> FALSE,
           compound_order |-> 0, reserved |-> FALSE, lru |-> FALSE,
           movable |-> FALSE]

PageBuddy(p) == p.buddy
PageReserved(p) == p.reserved
PageCompound(p) == p.head \/ p.tail
compound_order(p) == IF ~p.head THEN 0 ELSE p.compound_order
PageLRU(p) == p.lru
PageMovable(p) == p.movable

(***************************************************************************)
(* Page metadata, as far as the fine script reads it.                      *)
(*   reserved, slab, lru, active, uptodate   page flags                    *)
(*   buddy, private       the buddy marker of page_type, and the order     *)
(*   reclaimable          slab_cache.allocflags & __GFP_RECLAIMABLE        *)
(*   zsmalloc             mapping is zsmalloc_mops + 2                     *)
(*   kmem                 memcg_data & 2                                   *)
(*   refcount             _refcount.counter                                *)
(*   head, compound_order what compound_nr reads                           *)
(***************************************************************************)
FinePage(over) ==
    [f \in {"reserved", "slab", "lru", "active", "uptodate", "buddy",
            "reclaimable", "zsmalloc", "kmem", "head"} |->
        IF f \in DOMAIN over THEN over[f] ELSE FALSE]
    @@ [private |-> IF "private" \in DOMAIN over THEN over.private ELSE 0,
        refcount |-> IF "refcount" \in DOMAIN over THEN over.refcount ELSE 1,
        compound_order |-> IF "compound_order" \in DOMAIN over
                           THEN over.compound_order ELSE 0]

FinePages ==
    \* reserved pages, alone and with other marks set
    {FinePage([reserved |-> TRUE]),
     FinePage([reserved |-> TRUE, lru |-> TRUE]),
     FinePage([reserved |-> TRUE, lru |-> TRUE, buddy |-> TRUE]),
     FinePage([reserved |-> TRUE, lru |-> TRUE, slab |-> TRUE])}
    \cup
    \* free pages of any order read from page.private
    {FinePage([buddy |-> TRUE, private |-> o]) : o \in Orders}
    \cup
    \* single frames of every other type
    {FinePage([slab |-> TRUE, reclaimable |-> TRUE]), FinePage([slab |-> TRUE]),
     FinePage([zsmalloc |-> TRUE]), FinePage([lru |-> TRUE]),
     FinePage([uptodate |-> TRUE]),
     FinePage([kmem |-> TRUE]), FinePage([refcount |-> 0]), FinePage(<<>>)}
    \cup
    \* compound heads: a pair, a whole block, and twice a block
    {FinePage([head |-> TRUE, compound_order |-> 1, lru |-> TRUE]),
     FinePage([head |-> TRUE, compound_order |-> pageblock_order]),
     FinePage([head |-> TRUE, compound_order |-> pageblock_order + 1])}

BUDDY == 0
LRU == 1
SUNRECLAIM == 2
SRECLAIM == 3
ZSMALLOC == 4
KMEM == 5
RESERVED == 6
UNREF == 7
OTHER_TYPE == 8

\* page_type with the free-page test moved in front of the reserved test
page_type_buddy_first(p) ==
    IF p.buddy THEN BUDDY
    ELSE IF p.reserved THEN RESERVED
    ELSE IF p.slab THEN (IF p.reclaimable THEN SRECLAIM ELSE SUNRECLAIM)
    ELSE IF p.zsmalloc THEN ZSMALLOC
    ELSE IF p.lru \/ p.active \/ p.uptodate THEN LRU
    ELSE IF p.kmem THEN KMEM
    ELSE IF p.refcount = 0 THEN UNREF
    ELSE OTHER_TYPE

\* scan_unmovable_johannes.py lines 77-95.  Line 78 tests the global page, not
\* the parameter; at the call of the scan loop (line 159) the two are the same
\* page, and the call in dump_pageblock only prints.
page_type(p) ==
    IF p.reserved THEN RESERVED
    ELSE IF p.buddy THEN BUDDY
    ELSE IF p.slab THEN (IF p.reclaimable THEN SRECLAIM ELSE SUNRECLAIM)
    ELSE IF p.zsmalloc THEN ZSMALLOC
    ELSE IF p.lru \/ p.active \/ p.uptodate THEN LRU
    ELSE IF p.kmem THEN KMEM
    ELSE IF p.refcount = 0 THEN UNREF
    ELSE OTHER_TYPE

\* drgn's compound_nr, called at line 167
compound_nr(p) == IF p.head THEN Pow2(p.compound_order) ELSE 1

\* the pageblock migratetypes the fine script tells apart, and one it does not
MIGRATE_UNMOVABLE == 0
MIGRATE_MOVABLE == 1
MIGRATE_RECLAIMABLE == 2
MIGRATE_HIGHATOMIC == 3
Migratetypes == {MIGRATE_UNMOVABLE, MIGRATE_MOVABLE, MIGRATE_RECLAIMABLE,
                 MIGRATE_HIGHATOMIC}

(***************************************************************************)
(* get_boundary: the host signal read from /proc/region_boundary.          *)
(***************************************************************************)
get_boundary(present, movable_base, actual_unmovable_size, min_unmovable_size) ==
    IF ~present THEN NO_BOUNDARY
    ELSE IF actual_unmovable_size # 0 /\ min_unmovable_size # 0 /\ movable_base # 0
         THEN LET d == actual_unmovable_size - min_unmovable_size
                  \* int(movable_base + d / 4096) truncates towards zero
                  s == movable_base * 4096 + d
              IN IF s >= 0 THEN s \div 4096 ELSE -((-s) \div 4096)
         ELSE NO_BOUNDARY

Boundaries ==
    {get_boundary(f, b, a, m) :
        f \in BOOLEAN, b \in {0, pageblock_nr_pages - 1},
        a \in {0, 4096, 8192}, m \in {0, 4096}}

(***************************************************************************)
(* The coarse walker (scan_unmovable.py, lines 187-285).                   *)
(***************************************************************************)
InitScan ==
    /\ pc = "outer"
    /\ pfn = 0
    /\ page = NoPage
    /\ block_start_pfn = 0
    /\ block_end_pfn = 0
    /\ unmovable_pages = 0
    /\ movable_pages = 0
    /\ reserved_pages = 0
    /\ movable_2mb_pfns = <<>>
    /\ free_4mb_pfns = <<>>
    /\ regular_blocks = 0
    /\ unmovable_pages_in_unmovable_blocks = <<>>
    /\ movable_pages_in_unmovable_blocks = <<>>
    /\ free_pages_in_unmovable_blocks = <<>>
    /\ pcts = <<>>
    /\ movable_blocks_by_size = <<>>
    /\ free_blocks_by_size = <<>>

\* pfn_to_page: a frame frozen in the snapshot reads as frozen, a frame of the
\* live kernel may read as anything (reads are racy by design).
pfn_to_page(p) ==
    IF p \in DOMAIN mem THEN {mem[p]}
    ELSE IF mode = "coarse" THEN Pages ELSE FinePages

\* scan_unmovable.py lines 137-149: the section is online and has a mem_map,
\* and the subsection (one pageblock) is present
pfn_online(p) ==
    /\ sections[p \div PAGES_PER_SECTION]
    /\ online[p \div PAGES_PER_SUBSECTION]

InitFineIdle ==
    /\ i = 0
    /\ mt = 0
    /\ t = OTHER_TYPE
    /\ buddy = 0
    /\ lru = 0
    /\ reserved = 0
    /\ slab = 0
    /\ kmem = 0
    /\ other = 0
    /\ block_has_nonmovable = FALSE
    /\ slablru_in_unmovable = [slab |-> 0, lru |-> 0]
    /\ nonslab_in_reclaimable = [lru |-> 0, kmem |-> 0, other |-> 0]
    /\ nonlru_in_movable = [slab |-> 0, kmem |-> 0, other |-> 0]
    /\ unmovable_with_slablru = 0
    /\ movable_with_nonlru = 0
    /\ reclaimable_with_nonslab = 0
    /\ blocks_with_nonmovable = 0
    /\ pb = 0
    /\ types = <<>>

\* The coarse script starts; the scanned kernel is live: no frame is frozen.
InitCoarse ==
    /\ mode = "coarse"
    /\ mem = <<>>
    /\ sections \in [{0} -> BOOLEAN]
    /\ online \in [0 .. (NBlocks - 1) -> BOOLEAN]
    /\ max_pfn \in {MaxPfn - 1, MaxPfn}
    /\ boundary_pfn \in Boundaries
    /\ run = 1
    /\ first = <<>>
    /\ InitScan
    /\ InitFineIdle

\* lines 196-200: the section of pfn is offline
OfflineSkip ==
    /\ pc = "outer"
    /\ pfn < max_pfn
    /\ ~pfn_online(pfn)
    /\ pfn' = align(pfn + 1, MAX_ORDER_NR_PAGES)
    /\ UNCHANGED <<envvars, boundary_pfn, pc, page, block_start_pfn,
                   block_end_pfn, unmovable_pages, movable_pages,
                   reserved_pages, aggvars, postvars, run, first, finevars>>

\* lines 196-217: a block above the boundary is taken as movable unread
FastPath ==
    /\ pc = "outer"
    /\ pfn < max_pfn
    /\ pfn_online(pfn)
    /\ pfn > boundary_pfn
    /\ block_start_pfn' = pfn
    /\ block_end_pfn' = Min(align(pfn + 1, pageblock_nr_pages), max_pfn)
    /\ unmovable_pages' = 0
    /\ reserved_pages' = 0
    /\ regular_blocks' = regular_blocks + 1
    /\ movable_2mb_pfns' = Append(movable_2mb_pfns, pfn)
    /\ movable_pages' = pageblock_nr_pages
    /\ pfn' = block_end_pfn'
    /\ UNCHANGED <<envvars, boundary_pfn, pc, page, free_4mb_pfns,
                   unmovable_pages_in_unmovable_blocks,
                   movable_pages_in_unmovable_blocks, postvars, run, first, finevars>>

\* lines 196-218: a block is entered
BlockStart ==
    /\ pc = "outer"
    /\ pfn < max_pfn
    /\ pfn_online(pfn)
    /\ ~(pfn > boundary_pfn)
    /\ unmovable_pages' = 0
    /\ movable_pages' = 0
    /\ reserved_pages' = 0
    /\ block_start_pfn' = pfn
    /\ block_end_pfn' = Min(align(pfn + 1, pageblock_nr_pages), max_pfn)
    /\ pc' = "inner"
    /\ UNCHANGED <<envvars, boundary_pfn, pfn, page, aggvars, postvars, run, first, finevars>>

\* The coarse script stops on a failed assert: the values are those at the assert.
Abort ==
    pc' = "aborted"

\* lines 219-235: a free (buddy) page
StepBuddy ==
    /\ pc = "inner"
    /\ pfn < block_end_pfn
    /\ \E pg \in pfn_to_page(pfn) :
        /\ PageBuddy(pg)
        /\ page' = pg
        /\ LET freepage_order == pg.private
               next == IF freepage_order < MAX_ORDER
                       THEN pfn + (Pow2(freepage_order) - 1) + 1
                       ELSE pfn + 1
           IN /\ pfn' = next
              /\ IF next > block_end_pfn
                 THEN IF freepage_order = MAX_ORDER - 1
                      THEN /\ regular_blocks' = regular_blocks + 1
                           /\ movable_2mb_pfns' =
                                movable_2mb_pfns \o
                                  <<block_start_pfn,
                                    block_start_pfn + pageblock_nr_pages>>
                           /\ free_4mb_pfns' = Append(free_4mb_pfns, block_start_pfn)
                           /\ UNCHANGED pc
                      ELSE /\ Abort
                           /\ UNCHANGED <<regular_blocks, movable_2mb_pfns,
                                          free_4mb_pfns>>
                 ELSE UNCHANGED <<pc, regular_blocks, movable_2mb_pfns,
                                  free_4mb_pfns>>
    /\ UNCHANGED <<envvars, boundary_pfn, block_start_pfn, block_end_pfn,
                   unmovable_pages, movable_pages, reserved_pages,
                   unmovable_pages_in_unmovable_blocks,
                   movable_pages_in_unmovable_blocks, postvars, run, first, finevars>>

\* lines 237-257: a compound page (head or tail)
StepCompound ==
    /\ pc = "inner"
    /\ pfn < block_end_pfn
    /\ \E pg \in pfn_to_page(pfn) :
        /\ ~PageBuddy(pg)
        /\ PageCompound(pg)
        /\ page' = pg
        /\ LET order == compound_order(pg)
               valid == order < MAX_ORDER
               rest == Min(Pow2(order) - 1, pageblock_nr_pages - 1)
               thp == valid /\ PageLRU(pg)
               next == IF valid THEN pfn + (Pow2(order) - 1) + 1 ELSE pfn + 1
               over == next > block_end_pfn
           IN IF thp /\ order # pageblock_order
              THEN \* assert order == 9
                   /\ Abort
                   /\ pfn' = pfn + (Pow2(order) - 1)
                   /\ movable_pages' = movable_pages + rest
                   /\ UNCHANGED <<unmovable_pages, movable_2mb_pfns,
                                  unmovable_pages_in_unmovable_blocks,
                                  movable_pages_in_unmovable_blocks>>
              ELSE /\ pfn' = next
                   /\ movable_pages' =
                        IF PageLRU(pg)
                        THEN movable_pages + (IF valid THEN rest ELSE 0) + 1
                        ELSE movable_pages
                   /\ unmovable_pages' =
                        IF PageLRU(pg)
                        THEN unmovable_pages
                        ELSE unmovable_pages + (IF valid THEN rest ELSE 0) + 1
                   /\ movable_2mb_pfns' =
                        IF thp THEN Append(movable_2mb_pfns, block_start_pfn)
                        ELSE movable_2mb_pfns
                   /\ IF over
                      THEN IF order = MAX_ORDER - 1
                           THEN /\ unmovable_pages_in_unmovable_blocks' =
                                     Append(unmovable_pages_in_unmovable_blocks,
                                            pageblock_nr_pages)
                                /\ movable_pages_in_unmovable_blocks' =
                                     Append(movable_pages_in_unmovable_blocks, 0)
                                /\ UNCHANGED pc
                           ELSE \* assert order == 10
                                /\ Abort
                                /\ UNCHANGED <<unmovable_pages_in_unmovable_blocks,
                                               movable_pages_in_unmovable_blocks>>
                      ELSE UNCHANGED <<pc, unmovable_pages_in_unmovable_blocks,
                                       movable_pages_in_unmovable_blocks>>
    /\ UNCHANGED <<envvars, boundary_pfn, block_start_pfn, block_end_pfn,
                   reserved_pages, free_4mb_pfns, regular_blocks, postvars,
                   run, first, finevars>>

\* lines 259-262: a reserved page
StepReserved ==
    /\ pc = "inner"
    /\ pfn < block_end_pfn
    /\ \E pg \in pfn_to_page(pfn) :
        /\ ~PageBuddy(pg)
        /\ ~PageCompound(pg)
        /\ PageReserved(pg)
        /\ page' = pg
    /\ reserved_pages' = reserved_pages + 1
    /\ pfn' = pfn + 1
    /\ UNCHANGED <<envvars, boundary_pfn, pc, block_start_pfn, block_end_pfn,
                   unmovable_pages, movable_pages, aggvars, postvars, run, first, finevars>>

\* lines 264-267: a movable page
StepMovable ==
    /\ pc = "inner"
    /\ pfn < block_end_pfn
    /\ \E pg \in pfn_to_page(pfn) :
        /\ ~PageBuddy(pg)
        /\ ~PageCompound(pg)
        /\ ~PageReserved(pg)
        /\ PageLRU(pg) \/ PageMovable(pg)
        /\ page' = pg
    /\ movable_pages' = movable_pages + 1
    /\ pfn' = pfn + 1
    /\ UNCHANGED <<envvars, boundary_pfn, pc, block_start_pfn, block_end_pfn,
                   unmovable_pages, reserved_pages, aggvars, postvars, run, first, finevars>>

\* lines 269-271: an unmovable page
StepUnmovable ==
    /\ pc = "inner"
    /\ pfn < block_end_pfn
    /\ \E pg \in pfn_to_page(pfn) :
        /\ ~PageBuddy(pg)
        /\ ~PageCompound(pg)
        /\ ~PageReserved(pg)
        /\ ~(PageLRU(pg) \/ PageMovable(pg))
        /\ page' = pg
    /\ unmovable_pages' = unmovable_pages + 1
    /\ pfn' = pfn + 1
    /\ UNCHANGED <<envvars, boundary_pfn, pc, block_start_pfn, block_end_pfn,
                   movable_pages, reserved_pages, aggvars, postvars, run, first, finevars>>

\* lines 273-285: the block is recorded
EndBlock ==
    /\ pc = "inner"
    /\ ~(pfn < block_end_pfn)
    /\ pc' = "outer"
    /\ IF reserved_pages = pageblock_nr_pages
       THEN UNCHANGED aggvars
       ELSE IF unmovable_pages = 0
            THEN /\ regular_blocks' = regular_blocks + 1
                 /\ movable_2mb_pfns' = Append(movable_2mb_pfns, block_start_pfn)
                 /\ UNCHANGED <<free_4mb_pfns, unmovable_pages_in_unmovable_blocks,
                                movable_pages_in_unmovable_blocks>>
            ELSE /\ unmovable_pages_in_unmovable_blocks' =
                      Append(unmovable_pages_in_unmovable_blocks, unmovable_pages)
                 /\ movable_pages_in_unmovable_blocks' =
                      Append(movable_pages_in_unmovable_blocks, movable_pages)
                 /\ UNCHANGED <<free_4mb_pfns, regular_blocks, movable_2mb_pfns>>
    /\ UNCHANGED <<envvars, boundary_pfn, scanvars, postvars, run, first, finevars>>

ScanNext ==
    \/ OfflineSkip
    \/ FastPath
    \/ BlockStart
    \/ StepBuddy
    \/ StepCompound
    \/ StepReserved
    \/ StepMovable
    \/ StepUnmovable
    \/ EndBlock


(***************************************************************************)
(* IEEE-754 double arithmetic, as far as percentile needs it.              *)
(* A non-negative double is held exactly as a count of units of 2^-53,     *)
(* written in LimbCount limbs of LimbBits bits, least significant first    *)
(* (the model checker's integers have 32 bits).  Every intermediate value  *)
(* of percentile on the inputs below is a multiple of 2^-53 below 2^14, and *)
(* an operation rounds its exact result to 53 significant bits, to nearest *)
(* and ties to even, as the hardware does.                                 *)
(***************************************************************************)
LimbBase == Pow2(15)
LimbIdx == 1 .. 5

\* the double 1.0, and the doubles nearest to 0.5 and 0.99
DblOne == <<0, 0, 0, 256, 0>>
DblHalf == <<0, 0, 0, 128, 0>>
Dbl099 == <<18350, 30146, 14417, 253, 0>>
DblZero == <<0, 0, 0, 0, 0>>

RECURSIVE Carry(_, _, _)
\* x with limb values that may exceed the base, from limb j on, carry c in
Carry(x, j, c) ==
    IF j > 5 THEN x
    ELSE LET v == x[j] + c
         IN Carry([x EXCEPT ![j] = v % LimbBase], j + 1, v \div LimbBase)

DblMulInt(x, a) == Carry([j \in LimbIdx |-> x[j] * a], 1, 0)
DblAddExact(x, y) == Carry([j \in LimbIdx |-> x[j] + y[j]], 1, 0)

RECURSIVE Borrow(_, _, _, _)
Borrow(x, y, j, b) ==
    IF j > 5 THEN x
    ELSE LET v == x[j] - y[j] - b
         IN Borrow([x EXCEPT ![j] = IF v < 0 THEN v + LimbBase ELSE v], y, j + 1,
                   IF v < 0 THEN 1 ELSE 0)

\* x - y for x >= y
DblSubExact(x, y) == Borrow(x, y, 1, 0)

RECURSIVE IntBits(_)
IntBits(n) == IF n = 0 THEN 0 ELSE 1 + IntBits(n \div 2)

RECURSIVE TopLimb(_, _)
TopLimb(x, j) == IF j = 0 THEN 0 ELSE IF x[j] # 0 THEN j ELSE TopLimb(x, j - 1)

DblBits(x) ==
    LET top == TopLimb(x, 5)
    IN IF top = 0 THEN 0 ELSE 15 * (top - 1) + IntBits(x[top])

\* round to 53 significant bits, to nearest, ties to even
DblRound(x) ==
    LET d == DblBits(x) - 53
    IN IF d <= 0 THEN x
       ELSE LET unit == Pow2(d)
                r == x[1] % unit
                low == [DblZero EXCEPT ![1] = r]
                odd == IF d = 15 THEN x[2] % 2 = 1 ELSE (x[1] \div unit) % 2 = 1
                up == (2 * r > unit) \/ (2 * r = unit /\ odd)
                down == DblSubExact(x, low)
            IN IF up THEN Carry([down EXCEPT ![1] = down[1] + unit], 1, 0)
               ELSE down

DblOfInt(n) == DblMulInt(DblOne, n)
DblMul(x, n) == DblRound(DblMulInt(x, n))      \* int * float
DblAdd(x, y) == DblRound(DblAddExact(x, y))
DblSub(x, y) == DblRound(DblSubExact(x, y))
\* math.floor and int() of a non-negative double
DblFloor(x) == (x[4] \div 256) + 128 * x[5]
DblIsInt(x) == x[1] = 0 /\ x[2] = 0 /\ x[3] = 0 /\ x[4] % 256 = 0
\* math.ceil taken for math.floor
DblCeilFloor(x) == DblFloor(x)
DblCeil(x) == IF DblIsInt(x) THEN DblFloor(x) ELSE DblFloor(x) + 1

\* the float literal of a call percentile(N, 0.50) or percentile(N, 0.99)
DblOfPercent(percent) == IF percent = 50 THEN DblHalf ELSE Dbl099

(***************************************************************************)
(* percentile (lines 51-70).  None is <<>>, a value v is <<v>>.            *)
(***************************************************************************)
percentile(N, percent) ==
    IF N = <<>> THEN <<>>
    ELSE LET k == DblMul(DblOfPercent(percent), Len(N) - 1)
             f == DblFloor(k)
             c == DblCeil(k)
         IN IF f = c THEN <<N[f + 1]>>
            ELSE LET d0 == DblMul(DblSub(DblOfInt(c), k), N[f + 1])
                     d1 == DblMul(DblSub(k, DblOfInt(f)), N[c + 1])
                 IN <<DblFloor(DblAdd(d0, d1))>>

(***************************************************************************)
(* After the scan (scan_unmovable.py, lines 287-348).                      *)
(***************************************************************************)
RECURSIVE Insert(_, _)
Insert(sorted, x) ==
    IF sorted = <<>> THEN <<x>>
    ELSE IF x <= Head(sorted) THEN <<x>> \o sorted
    ELSE <<Head(sorted)>> \o Insert(Tail(sorted), x)

RECURSIVE Sort(_)
\* list.sort() of a list of integers
Sort(xs) == IF xs = <<>> THEN <<>> ELSE Insert(Sort(Tail(xs)), Head(xs))

ToSet(xs) == {xs[j] : j \in DOMAIN xs}

\* lines 292-300, before the sort
FreePages ==
    [j \in DOMAIN unmovable_pages_in_unmovable_blocks |->
        pageblock_nr_pages - movable_pages_in_unmovable_blocks[j]
                           - unmovable_pages_in_unmovable_blocks[j]]

\* lines 287-310: the per-block samples are turned into statistics
Stats ==
    /\ pc = "outer"
    /\ ~(pfn < max_pfn)
    /\ IF \E j \in DOMAIN FreePages : FreePages[j] < 0
       THEN \* assert free_pages_in_this_block >= 0
            /\ Abort
            /\ UNCHANGED <<aggvars, postvars>>
       ELSE /\ pc' = "movable"
            /\ free_pages_in_unmovable_blocks' = Sort(FreePages)
            /\ movable_pages_in_unmovable_blocks' =
                 Sort(movable_pages_in_unmovable_blocks)
            /\ unmovable_pages_in_unmovable_blocks' =
                 Sort(unmovable_pages_in_unmovable_blocks)
            /\ pcts' =
                 <<percentile(free_pages_in_unmovable_blocks', 50),
                   percentile(free_pages_in_unmovable_blocks', 99),
                   percentile(movable_pages_in_unmovable_blocks', 50),
                   percentile(movable_pages_in_unmovable_blocks', 99),
                   percentile(unmovable_pages_in_unmovable_blocks', 50),
                   percentile(unmovable_pages_in_unmovable_blocks', 99)>>
            /\ UNCHANGED <<movable_2mb_pfns, free_4mb_pfns, regular_blocks,
                           movable_blocks_by_size, free_blocks_by_size>>
    /\ UNCHANGED <<envvars, boundary_pfn, scanvars, run, first, finevars>>

\* build_list without the test that the buddy is in the set
build_list_all(prev_set, order) ==
    {BitAnd(BitXor(q, Pow2(order)), q) : q \in prev_set}

\* lines 152-159
build_list(prev_set, order) ==
    {BitAnd(BitXor(q, Pow2(order)), q) :
        q \in {r \in prev_set :
                 /\ BitXor(r, Pow2(order)) > r
                 /\ BitXor(r, Pow2(order)) \in prev_set}}

\* the last order of the two loops, range(10, 19) and range(11, 19): 1GB
TOP_ORDER == pageblock_order + 9

RECURSIVE Levels(_, _, _)
\* for i in range(from, 19): by_size.append(build_list(by_size[i - from], i))
Levels(by_size, from, ord) ==
    IF ord > TOP_ORDER THEN by_size
    ELSE Levels(Append(by_size, build_list(by_size[(ord - from) + 1], ord)), from, ord + 1)

\* lines 312-318: the movable regions of every order from 2MB to 1GB
MovableCoalesce ==
    /\ pc = "movable"
    /\ movable_blocks_by_size' =
         Levels(<<ToSet(movable_2mb_pfns)>>, MAX_ORDER - 1, MAX_ORDER - 1)
    /\ pc' = "free"
    /\ UNCHANGED <<envvars, boundary_pfn, scanvars, aggvars,
                   free_pages_in_unmovable_blocks, pcts, free_blocks_by_size,
                   run, first, finevars>>

\* lines 320-326: the free regions of every order from 4MB to 1GB
FreeCoalesce ==
    /\ pc = "free"
    /\ free_blocks_by_size' = Levels(<<ToSet(free_4mb_pfns)>>, MAX_ORDER, MAX_ORDER)
    /\ pc' = "report"
    /\ UNCHANGED <<envvars, boundary_pfn, scanvars, aggvars,
                   free_pages_in_unmovable_blocks, pcts, movable_blocks_by_size,
                   run, first, finevars>>

\* lines 328-348: the summary line; the fraction divides by the block count
Report ==
    /\ pc = "report"
    /\ pc' = IF regular_blocks + Len(unmovable_pages_in_unmovable_blocks) = 0
             THEN "crashed"     \* ZeroDivisionError
             ELSE "done"
    /\ UNCHANGED <<envvars, boundary_pfn, scanvars, aggvars, postvars, run, first, finevars>>

PostNext ==
    \/ Stats
    \/ MovableCoalesce
    \/ FreeCoalesce
    \/ Report

NextCoarse == ScanNext \/ PostNext
SpecScan == InitCoarse /\ [][NextCoarse]_vars

(***************************************************************************)
(* The fine walker (scan_unmovable_johannes.py, lines 121-256).            *)
(***************************************************************************)
FINE_LIMIT == 2 * pageblock_nr_pages    \* 0x400 = 2 * 512: while pfn <= 0x400
MinLowPfns == {2 * pageblock_nr_pages - 1, 2 * pageblock_nr_pages}

InitFine ==
    /\ mode = "fine"
    /\ mem = <<>>
    /\ sections \in [{0} -> BOOLEAN]
    /\ online = [b \in 0 .. (NBlocks - 1) |-> TRUE]
    /\ max_pfn \in {MaxPfn, 2 * FINE_LIMIT}  \* line 135: the script does not read it
    /\ boundary_pfn = NO_BOUNDARY
    /\ run = 1
    /\ first = <<>>
    /\ pfn \in MinLowPfns              \* prog['min_low_pfn']
    /\ page = FinePage(<<>>)
    /\ pc = "f_outer"
    /\ block_start_pfn = 0
    /\ block_end_pfn = 0
    /\ unmovable_pages = 0
    /\ movable_pages = 0
    /\ reserved_pages = 0
    /\ movable_2mb_pfns = <<>>
    /\ free_4mb_pfns = <<>>
    /\ regular_blocks = 0
    /\ unmovable_pages_in_unmovable_blocks = <<>>
    /\ movable_pages_in_unmovable_blocks = <<>>
    /\ free_pages_in_unmovable_blocks = <<>>
    /\ pcts = <<>>
    /\ movable_blocks_by_size = <<>>
    /\ free_blocks_by_size = <<>>
    /\ InitFineIdle

\* lines 33-34, 48-49
valid_section(p) ==
    IF p \div PAGES_PER_SECTION \in DOMAIN sections
    THEN sections[p \div PAGES_PER_SECTION] ELSE FALSE

\* lines 136-141
FineSkipSection ==
    /\ pc = "f_outer"
    /\ pfn <= FINE_LIMIT
    /\ ~valid_section(pfn)
    /\ pfn' = pfn + PAGES_PER_SECTION
    /\ UNCHANGED <<envvars, pc, page, coarsevars, finevars>>

\* lines 136-156: a block is entered, its migratetype read
FineBlockStart ==
    /\ pc = "f_outer"
    /\ pfn <= FINE_LIMIT
    /\ valid_section(pfn)
    /\ mt' \in Migratetypes        \* get_pageblock_migratetype(first_page)
    /\ buddy' = 0
    /\ lru' = 0
    /\ reserved' = 0
    /\ slab' = 0
    /\ kmem' = 0
    /\ other' = 0
    /\ block_has_nonmovable' = FALSE
    /\ i' = 0
    /\ pc' = "f_inner"
    /\ UNCHANGED <<envvars, pfn, page, coarsevars, t, tallyvars>>

size == Pow2(pageblock_order)

\* lines 157-165: a free page advances by 1 << page.private
FineStepBuddy ==
    /\ pc = "f_inner"
    /\ i < size
    /\ \E pg \in pfn_to_page(pfn + i) :
        /\ page_type(pg) = BUDDY
        /\ page' = pg
        /\ t' = BUDDY
        /\ LET nr == Pow2(pg.private)
           IN /\ buddy' = buddy + nr
              /\ i' = i + nr
    /\ UNCHANGED <<envvars, pc, pfn, coarsevars, mt, lru, reserved, slab, kmem,
                   other, block_has_nonmovable, tallyvars>>

\* lines 157-171: a compound size above one block ends the scan
FineStepBogus ==
    /\ pc = "f_inner"
    /\ i < size
    /\ \E pg \in pfn_to_page(pfn + i) :
        /\ page_type(pg) # BUDDY
        /\ compound_nr(pg) > pageblock_nr_pages
        /\ page' = pg
        /\ t' = page_type(pg)
    /\ pc' = "f_exit"               \* sys.exit(1)
    /\ UNCHANGED <<envvars, pfn, coarsevars, i, mt, blockvars, tallyvars>>

\* lines 157-227: a page of type ty is counted and the cursor advanced
FineCount(ty, dlru, dkmem, dslab, dreserved, dbuddy, dother, nonmovable) ==
    /\ pc = "f_inner"
    /\ i < size
    /\ \E pg \in pfn_to_page(pfn + i) :
        /\ page_type(pg) = ty
        /\ ~(compound_nr(pg) > pageblock_nr_pages)
        /\ page' = pg
        /\ t' = ty
        /\ LET nr == compound_nr(pg)
           IN /\ lru' = lru + dlru * nr
              /\ kmem' = kmem + dkmem * nr
              /\ slab' = slab + dslab * nr
              /\ reserved' = reserved + dreserved * nr
              /\ buddy' = buddy + dbuddy * nr
              /\ other' = other + dother * nr
              /\ i' = i + nr
    /\ block_has_nonmovable' = (block_has_nonmovable \/ nonmovable)
    /\ UNCHANGED <<envvars, pc, pfn, coarsevars, mt, tallyvars>>

FineStepLRU == FineCount(LRU, 1, 0, 0, 0, 0, 0, FALSE)               \* 173-192
FineStepSunreclaim == FineCount(SUNRECLAIM, 0, 1, 0, 0, 0, 0, TRUE)  \* 193-199
FineStepSreclaim == FineCount(SRECLAIM, 0, 0, 1, 0, 0, 0, FALSE)     \* 200-208
FineStepZsmalloc == FineCount(ZSMALLOC, 1, 0, 0, 0, 0, 0, FALSE)     \* 209-211
FineStepKmem == FineCount(KMEM, 0, 1, 0, 0, 0, 0, TRUE)              \* 212-214
FineStepReserved == FineCount(RESERVED, 0, 0, 0, 1, 0, 0, FALSE)     \* 215-217
FineStepUnref == FineCount(UNREF, 0, 0, 0, 0, 1, 0, FALSE)           \* 218-219
FineStepOther == FineCount(OTHER_TYPE, 0, 0, 0, 0, 0, 1, TRUE)       \* 220-225

\* the test of a block counter inverted
TallyUnless(counter, cond) == IF cond THEN counter ELSE counter + 1

\* lines 232-233, 238-239, 244-245, 255-256: if cond: counter += 1
Tally(counter, cond) == IF cond THEN counter + 1 ELSE counter

\* lines 229-256: the block's tallies are added up by its migratetype
FineEndBlock ==
    /\ pc = "f_inner"
    /\ ~(i < size)
    /\ IF mt = MIGRATE_UNMOVABLE
       THEN /\ slablru_in_unmovable' =
                 [slab |-> slablru_in_unmovable.slab + slab,
                  lru |-> slablru_in_unmovable.lru + lru]
            /\ unmovable_with_slablru' =
                 Tally(unmovable_with_slablru, slab # 0 \/ lru # 0)
            /\ UNCHANGED <<nonslab_in_reclaimable, reclaimable_with_nonslab,
                           nonlru_in_movable, movable_with_nonlru>>
       ELSE IF mt = MIGRATE_RECLAIMABLE
       THEN /\ nonslab_in_reclaimable' =
                 [lru |-> nonslab_in_reclaimable.lru + lru,
                  kmem |-> nonslab_in_reclaimable.kmem + kmem,
                  other |-> nonslab_in_reclaimable.other + other]
            /\ reclaimable_with_nonslab' =
                 Tally(reclaimable_with_nonslab, lru # 0 \/ kmem # 0 \/ other # 0)
            /\ UNCHANGED <<slablru_in_unmovable, unmovable_with_slablru,
                           nonlru_in_movable, movable_with_nonlru>>
       ELSE IF mt = MIGRATE_MOVABLE
       THEN /\ nonlru_in_movable' =
                 [slab |-> nonlru_in_movable.slab + slab,
                  kmem |-> nonlru_in_movable.kmem + kmem,
                  other |-> nonlru_in_movable.other + other]
            /\ movable_with_nonlru' =
                 Tally(movable_with_nonlru, slab # 0 \/ kmem # 0 \/ other # 0)
            /\ UNCHANGED <<slablru_in_unmovable, unmovable_with_slablru,
                           nonslab_in_reclaimable, reclaimable_with_nonslab>>
       ELSE UNCHANGED <<slablru_in_unmovable, unmovable_with_slablru,
                        nonslab_in_reclaimable, reclaimable_with_nonslab,
                        nonlru_in_movable, movable_with_nonlru>>
    /\ types' = IF mt \in DOMAIN types
                THEN [types EXCEPT ![mt] = @ + 1]
                ELSE types @@ (mt :> 1)
    /\ pfn' = pfn + Pow2(pageblock_order)
    /\ pb' = pb + 1
    /\ blocks_with_nonmovable' = Tally(blocks_with_nonmovable, block_has_nonmovable)
    /\ pc' = "f_outer"
    /\ UNCHANGED <<envvars, page, coarsevars, i, mt, t, blockvars>>

\* lines 136, 258-264: the loop ends and the tallies are printed
FineFinish ==
    /\ pc = "f_outer"
    /\ ~(pfn <= FINE_LIMIT)
    /\ pc' = "f_done"
    /\ UNCHANGED <<envvars, pfn, page, coarsevars, finevars>>

NextFine ==
    \/ FineSkipSection
    \/ FineBlockStart
    \/ FineStepBuddy
    \/ FineStepBogus
    \/ FineStepLRU
    \/ FineStepSunreclaim
    \/ FineStepSreclaim
    \/ FineStepZsmalloc
    \/ FineStepKmem
    \/ FineStepReserved
    \/ FineStepUnref
    \/ FineStepOther
    \/ FineEndBlock
    \/ FineFinish

(***************************************************************************)
(* The coarse scan of one frozen snapshot, run with the host signal and    *)
(* then again without it.                                                  *)
(***************************************************************************)
\* what the run prints: lines 313-348
Counts(list, by_size) ==
    <<Len(list)>> \o [j \in 1 .. (Len(by_size) - 1) |-> Cardinality(by_size[j + 1])]

Results ==
    [regular_blocks |-> regular_blocks,
     unmovable_pages |-> unmovable_pages_in_unmovable_blocks,
     movable_pages |-> movable_pages_in_unmovable_blocks,
     free_pages |-> free_pages_in_unmovable_blocks,
     movable_order |-> Counts(movable_2mb_pfns, movable_blocks_by_size),
     free_order |-> Counts(free_4mb_pfns, free_blocks_by_size)]

PairPages ==
    {[NoPage EXCEPT !.lru = TRUE],
     NoPage,
     [NoPage EXCEPT !.reserved = TRUE],
     [NoPage EXCEPT !.buddy = TRUE],
     [NoPage EXCEPT !.buddy = TRUE, !.private = MAX_ORDER - 1],
     [NoPage EXCEPT !.head = TRUE, !.compound_order = pageblock_order, !.lru = TRUE]}

\* a snapshot of n blocks: in every block one kind of page at the block's first
\* frame and one kind at all its other frames
SnapshotsOf(n, kinds) ==
    {[p \in 0 .. (n * pageblock_nr_pages - 1) |->
         IF p % pageblock_nr_pages = 0
         THEN k[p \div pageblock_nr_pages][1]
         ELSE k[p \div pageblock_nr_pages][2]] :
        k \in [0 .. (n - 1) -> kinds]}

Snapshots == SnapshotsOf(NBlocks, PairPages \X PairPages)

InitPair ==
    /\ mode = "coarse"
    /\ mem \in Snapshots
    /\ sections = [s \in {0} |-> TRUE]
    /\ online \in {[b \in 0 .. (NBlocks - 1) |-> TRUE],
                   [b \in 0 .. (NBlocks - 1) |-> b = 0]}
    /\ max_pfn = MaxPfn
    /\ boundary_pfn \in Boundaries
    /\ run = 1
    /\ first = <<>>
    /\ InitScan
    /\ InitFineIdle

\* the script is started again on the same snapshot, /proc/region_boundary absent
Rerun ==
    /\ pc = "done"
    /\ run = 1
    /\ run' = 2
    /\ first' = <<Results>>
    /\ boundary_pfn' = get_boundary(FALSE, 0, 0, 0)
    /\ pc' = "outer"
    /\ pfn' = 0
    /\ page' = NoPage
    /\ block_start_pfn' = 0
    /\ block_end_pfn' = 0
    /\ unmovable_pages' = 0
    /\ movable_pages' = 0
    /\ reserved_pages' = 0
    /\ movable_2mb_pfns' = <<>>
    /\ free_4mb_pfns' = <<>>
    /\ regular_blocks' = 0
    /\ unmovable_pages_in_unmovable_blocks' = <<>>
    /\ movable_pages_in_unmovable_blocks' = <<>>
    /\ free_pages_in_unmovable_blocks' = <<>>
    /\ pcts' = <<>>
    /\ movable_blocks_by_size' = <<>>
    /\ free_blocks_by_size' = <<>>
    /\ UNCHANGED <<envvars, finevars>>

NextPair == NextCoarse \/ Rerun
SpecPair == InitPair /\ [][NextPair]_vars

(***************************************************************************)
(* The coarse scan of a longer snapshot, up to its report: NCoalesce blocks,*)
(* every one online, no host boundary.  A block's first frame holds one    *)
(* kind of page and its other frames another:                              *)
(*   reserved, reserved         a block the scan drops                     *)
(*   LRU, LRU                   a regular block                            *)
(*   LRU head of order 9, tail  a transparent huge page                    *)
(*   free of order 10, tail     a free page over this block and the next   *)
(*   reserved, head of order 10 a compound page that starts at the second  *)
(*                              frame and ends behind the next block       *)
(*   unmovable, LRU             a block with one unmovable page            *)
(***************************************************************************)
NCoalesce == 5

CoalescePages ==
    {<<[NoPage EXCEPT !.reserved = TRUE], [NoPage EXCEPT !.reserved = TRUE]>>,
     <<[NoPage EXCEPT !.lru = TRUE], [NoPage EXCEPT !.lru = TRUE]>>,
     <<[NoPage EXCEPT !.head = TRUE, !.compound_order = pageblock_order, !.lru = TRUE],
       [NoPage EXCEPT !.tail = TRUE]>>,
     <<[NoPage EXCEPT !.buddy = TRUE, !.private = MAX_ORDER - 1],
       [NoPage EXCEPT !.tail = TRUE]>>,
     <<[NoPage EXCEPT !.reserved = TRUE],
       [NoPage EXCEPT !.head = TRUE, !.compound_order = MAX_ORDER - 1]>>,
     <<NoPage, [NoPage EXCEPT !.lru = TRUE]>>}

InitCoalesce ==
    /\ mode = "coarse"
    /\ mem \in SnapshotsOf(NCoalesce, CoalescePages)
    /\ sections = [s \in {0} |-> TRUE]
    /\ online = [b \in 0 .. (NCoalesce - 1) |-> TRUE]
    /\ max_pfn = NCoalesce * pageblock_nr_pages
    /\ boundary_pfn = get_boundary(FALSE, 0, 0, 0)
    /\ run = 1
    /\ first = <<>>
    /\ InitScan
    /\ InitFineIdle

\* every block is online and below the boundary: lines 198-200 and 212-217 are
\* never taken
NextCoalesce ==
    \/ BlockStart
    \/ StepBuddy
    \/ StepCompound
    \/ StepReserved
    \/ StepMovable
    \/ StepUnmovable
    \/ EndBlock
    \/ Stats
    \/ MovableCoalesce
    \/ FreeCoalesce
    \/ Report

SpecCoalesce == InitCoalesce /\ [][NextCoalesce]_vars

(***************************************************************************)
(* percentile on its own: a sorted list N is drawn and percentile(N, 0.50) *)
(* and percentile(N, 0.99) are called, as lines 305-310 call them.         *)
(***************************************************************************)
MaxPctLen == 4
LongPctLen == 101       \* a list long enough for (len - 1) * 0.99 to be whole
PctValues == {0, 1, 2, 3, 4, 5, 12, 511, 512}

RECURSIVE SortedLists(_)
\* the non-decreasing lists of PctValues of length n
SortedLists(n) ==
    IF n = 0 THEN {<<>>}
    ELSE UNION {{Append(l, v) : v \in {w \in PctValues : l = <<>> \/ l[Len(l)] <= w}} :
                  l \in SortedLists(n - 1)}

\* long lists: m times a value, then a value not below it
LongLists ==
    {[j \in 1 .. LongPctLen |-> IF j <= m THEN a ELSE b] :
        m \in {1, 50, 51, 100}, a \in PctValues, b \in {w \in PctValues : w >= 5}} \cap
    {l \in [1 .. LongPctLen -> PctValues] : l[1] <= l[LongPctLen]}

PctLists == UNION {SortedLists(n) : n \in 0 .. MaxPctLen} \cup LongLists

InitPct ==
    /\ mode = "coarse"
    /\ mem = <<>>
    /\ sections = [s \in {0} |-> TRUE]
    /\ online = [b \in 0 .. (NBlocks - 1) |-> TRUE]
    /\ max_pfn = MaxPfn
    /\ boundary_pfn = NO_BOUNDARY
    /\ run = 1
    /\ first = <<>>
    /\ pc = "percentile"
    /\ pfn = max_pfn
    /\ page = NoPage
    /\ block_start_pfn = 0
    /\ block_end_pfn = max_pfn
    /\ unmovable_pages = 0
    /\ movable_pages = 0
    /\ reserved_pages = 0
    /\ movable_2mb_pfns = <<>>
    /\ free_4mb_pfns = <<>>
    /\ regular_blocks = 0
    /\ unmovable_pages_in_unmovable_blocks = <<>>
    /\ movable_pages_in_unmovable_blocks = <<>>
    /\ free_pages_in_unmovable_blocks \in PctLists      \* N, sorted
    /\ pcts = <<>>
    /\ movable_blocks_by_size = <<>>
    /\ free_blocks_by_size = <<>>
    /\ InitFineIdle

\* lines 305-306: p50 = percentile(N, 0.50); p99 = percentile(N, 0.99)
PercentileCalls ==
    /\ pc = "percentile"
    /\ pcts' = <<percentile(free_pages_in_unmovable_blocks, 50),
                 percentile(free_pages_in_unmovable_blocks, 99)>>
    /\ pc' = "percentile_done"
    /\ UNCHANGED <<envvars, boundary_pfn, scanvars, aggvars,
                   free_pages_in_unmovable_blocks, movable_blocks_by_size,
                   free_blocks_by_size, run, first, finevars>>

SpecPct == InitPct /\ [][PercentileCalls]_vars

Init == InitCoarse \/ InitFine
Next == NextCoarse \/ NextFine
Spec == Init /\ [][Next]_vars
SpecFine == InitFine /\ [][NextFine]_vars

(***************************************************************************)
(* The claims.                                                             *)
(***************************************************************************)
\* the regions of by_size[j] have order base + (j - 1)
PairsPresent(by_size, base) ==
    \A j \in 1 .. (Len(by_size) - 1) :
        LET k == base + (j - 1)
        IN \A p \in by_size[j + 1] :
             /\ p \in by_size[j]
             /\ p + Pow2(k) \in by_size[j]
             /\ BitAnd(p, Pow2(k)) = 0

\* C1: in both coalescing passes and at every order k, a region at PFN p in the
\* set of order k+1 has both p and p + (1 << k) in the set of order k, and p is
\* the lower PFN of the pair.
C1_CoalescingPairs ==
    /\ PairsPresent(movable_blocks_by_size, pageblock_order)
    /\ PairsPresent(free_blocks_by_size, MAX_ORDER - 1)

\* the regions of by_size[j] that the region p of by_size[j + 1] was built from
\* by build_list(by_size[j], ord)
Consumed(by_size, j, p, ord) == by_size[j] \cap {p, p + Pow2(ord)}

\* list holds the PFNs found by the scan, by_size the sets built from it by
\* calls of build_list with the orders from, from + 1, ...
Halved(list, by_size, from) ==
    by_size # <<>> =>
      \A j \in 1 .. (Len(by_size) - 1) :
        LET count == IF j = 1 THEN Len(list) ELSE Cardinality(by_size[j])
            ord == from + (j - 1)
        IN /\ 2 * Cardinality(by_size[j + 1]) <= count
           /\ \A p \in by_size[j + 1] :
                Cardinality(Consumed(by_size, j, p, ord)) = 2
           /\ \A p1, p2 \in by_size[j + 1] :
                p1 # p2 =>
                  Consumed(by_size, j, p1, ord) \cap Consumed(by_size, j, p2, ord) = {}

\* C2: in both coalescing passes the region count printed for an order is at
\* most half the count printed for the order below it: every region is built
\* from two distinct regions of the set below, and no region of the set below
\* is used for two regions.
C2_CoalescingHalves ==
    /\ Halved(movable_2mb_pfns, movable_blocks_by_size, MAX_ORDER - 1)
    /\ Halved(free_4mb_pfns, free_blocks_by_size, MAX_ORDER)

\* both passes have run and each has merged regions
C2_Merged ==
    /\ pc = "report"
    /\ movable_blocks_by_size[2] # {}
    /\ free_blocks_by_size[2] # {}

\* C3: when the coarse walker records a block, its movable, unmovable and
\* reserved pages add up to at most one block, and every sample of the
\* unmovable-bearing lists leaves a free-page count of at least zero.
C3_BlockSums ==
    /\ (mode = "coarse" /\ pc = "outer") =>
          movable_pages + unmovable_pages + reserved_pages <= pageblock_nr_pages
    /\ (mode = "coarse" /\ pc \in {"outer", "inner"}) =>
          \A j \in DOMAIN FreePages : FreePages[j] >= 0

\* C4: in both walkers a run length is clamped to the frames left in the block:
\* after every step the cursor is at most the block's end, and the frames
\* counted for the block are at most one block.
C4_RunsClamped ==
    /\ (mode = "coarse" /\ pc = "inner") =>
          /\ pfn <= block_end_pfn
          /\ movable_pages + unmovable_pages + reserved_pages <= pageblock_nr_pages
    /\ (mode = "fine" /\ pc = "f_inner") =>
          /\ i <= size
          /\ buddy + lru + reserved + slab + kmem + other <= size

\* C5: a scan stops early only on a compound size above one block or on a
\* negative free-page count; on any other page metadata it goes on.
C5_AbortsOnlyOnBogusSizeOrNegativeFree ==
    [][/\ (pc' = "aborted" /\ pc # "aborted") =>
             /\ pc = "outer"
             /\ ~(pfn < max_pfn)
             /\ \E j \in DOMAIN FreePages : FreePages[j] < 0
       /\ (pc' = "f_exit" /\ pc # "f_exit") =>
             compound_nr(page') > pageblock_nr_pages]_vars

ReservedLRU(p) == p.reserved /\ p.lru

\* the coarse walker is about to read and classify a frame
CoarseRead == mode = "coarse" /\ pc = "inner" /\ pfn < block_end_pfn

\* the fine walker is about to read and classify a frame
FineRead == mode = "fine" /\ pc = "f_inner" /\ i < size

CoarseCountsReserved ==
    /\ reserved_pages' = reserved_pages + 1
    /\ movable_pages' = movable_pages
    /\ unmovable_pages' = unmovable_pages

\* C6, as stated: a page read with the reserved and the LRU bit set, whatever
\* its other bits, is counted as reserved by the coarse walker and typed
\* RESERVED by the fine walker.
C6_ReservedWhateverElse ==
    [][/\ (CoarseRead /\ ReservedLRU(page')) => CoarseCountsReserved
       /\ (FineRead /\ ReservedLRU(page')) => t' = RESERVED]_vars

\* C6, amended: a page read with the reserved and the LRU bit set is counted as
\* reserved by the coarse walker when it is neither a free (buddy) page nor a
\* compound page, and is typed RESERVED and counted as reserved by the fine
\* walker whatever its other bits.
C6_ReservedBeforeLRU ==
    [][/\ (/\ CoarseRead
           /\ ReservedLRU(page')
           /\ ~PageBuddy(page')
           /\ ~PageCompound(page')) => CoarseCountsReserved
       /\ (FineRead /\ ReservedLRU(page')) =>
             /\ t' = RESERVED
             /\ pc' = "f_exit" \/ reserved' = reserved + compound_nr(page')]_vars

\* the coarse walker has counted a reserved LRU page as reserved
C6_ReservedCounted ==
    /\ mode = "coarse"
    /\ pc = "inner"
    /\ ReservedLRU(page)
    /\ ~PageBuddy(page)
    /\ ~PageCompound(page)
    /\ reserved_pages = 2
    /\ movable_pages = 0
    /\ unmovable_pages = 0

\* C7: on one snapshot, the coarse scan with a host boundary and the scan
\* without the host signal report the same results.
C7_SameWithoutBoundary ==
    (run = 2 /\ pc = "done") => first = <<Results>>

\* C8: every block is recorded once, so the order-9 movable collection holds
\* one block-start PFN per regular block: the order-9 movable count of the
\* report is its regular-block count.
C8_MovableCountIsRegular ==
    (mode = "coarse" /\ pc = "done") => Len(movable_2mb_pfns) = regular_blocks

\* rank = (len(N) - 1) * percent / 100, as an exact fraction of 100
RankTimes100(N, percent) == (Len(N) - 1) * percent
RankFloor(N, percent) == RankTimes100(N, percent) \div 100
RankCeil(N, percent) ==
    IF RankTimes100(N, percent) % 100 = 0 THEN RankFloor(N, percent)
    ELSE RankFloor(N, percent) + 1

\* 100 * (N[floor] * (ceil - rank) + N[ceil] * (rank - floor)), exactly
InterpolatedTimes100(N, percent) ==
    N[RankFloor(N, percent) + 1]
        * (100 * RankCeil(N, percent) - RankTimes100(N, percent))
    + N[RankCeil(N, percent) + 1]
        * (RankTimes100(N, percent) - 100 * RankFloor(N, percent))

PercentileOf(N, percent, r) ==
    IF N = <<>> THEN r = <<>>
    ELSE /\ Len(r) = 1
         /\ IF RankTimes100(N, percent) % 100 = 0
            THEN r[1] = N[RankFloor(N, percent) + 1]
            ELSE LET exact == InterpolatedTimes100(N, percent)
                 IN /\ N[RankFloor(N, percent) + 1] <= r[1]
                    /\ r[1] <= N[RankCeil(N, percent) + 1]
                    \* the sum of the two float terms, truncated: the exact
                    \* value truncated, or one less where the exact value is
                    \* an integer that the float sum falls short of
                    /\ r[1] \in {exact \div 100, (exact \div 100) - 1}
                    /\ exact % 100 # 0 => r[1] = exact \div 100

C10_OneCounterOnly ==
    [][(pc = "f_inner" /\ ~(i < size) /\ mt = MIGRATE_UNMOVABLE /\ lru > 0) =>
          /\ unmovable_with_slablru' = unmovable_with_slablru + 1
          /\ UNCHANGED <<slablru_in_unmovable, movable_with_nonlru,
                         nonlru_in_movable, reclaimable_with_nonslab,
                         nonslab_in_reclaimable>>]_vars

\* C10, amended: an unmovable block holding LRU pages increments the per-block
\* counter unmovable_with_slablru by one, however many such pages it holds,
\* and adds its slab and LRU page counts to the per-page tally
\* slablru_in_unmovable; the counters of movable and of reclaimable blocks stay
\* as they are, no counter moves while the block's pages are read, and the
\* scan goes on to the next block.
C10_UnmovableBlockWithLRU ==
    [][/\ (pc = "f_inner" /\ ~(i < size) /\ mt = MIGRATE_UNMOVABLE /\ lru > 0) =>
             /\ unmovable_with_slablru' = unmovable_with_slablru + 1
             /\ slablru_in_unmovable' =
                  [slab |-> slablru_in_unmovable.slab + slab,
                   lru |-> slablru_in_unmovable.lru + lru]
             /\ UNCHANGED <<movable_with_nonlru, nonlru_in_movable,
                            reclaimable_with_nonslab, nonslab_in_reclaimable>>
             /\ pc' = "f_outer"
             /\ pfn' = pfn + pageblock_nr_pages
       /\ (pc = "f_inner" /\ i < size /\ pc' = "f_inner") =>
             UNCHANGED <<unmovable_with_slablru, slablru_in_unmovable,
                         movable_with_nonlru, nonlru_in_movable,
                         reclaimable_with_nonslab, nonslab_in_reclaimable>>]_vars

\* an unmovable block with several LRU pages has been counted, once
C10_CountedOnce ==
    /\ mode = "fine"
    /\ pc = "f_outer"
    /\ mt = MIGRATE_UNMOVABLE
    /\ lru >= 2
    /\ pb = 1
    /\ unmovable_with_slablru = 1
    /\ slablru_in_unmovable.lru = lru

\* C11: in both walkers every loop step (a skip or a classification step)
\* moves the cursor strictly forward, and a scan that is not aborted stops
\* only once the cursor is at or beyond max_pfn.
C11_ProgressToMaxPfn ==
    [][/\ (mode = "coarse" /\ run' = run /\ pc' # "aborted" /\ pfn' # pfn) =>
             pfn' > pfn
       /\ (CoarseRead /\ pc' = "inner") => pfn' > pfn
       /\ (mode = "fine" /\ pfn' # pfn) => pfn' > pfn
       /\ (FineRead /\ pc' = "f_inner") => i' > i
       /\ (pc = "outer" /\ pc' = "movable") => pfn' >= max_pfn
       /\ (pc = "f_outer" /\ pc' = "f_done") => pfn' >= max_pfn]_vars

\* the regions of by_size[j] have order base + (j - 1)
Aligned(by_size, base) ==
    \A j \in 1 .. Len(by_size) :
        \A p \in by_size[j] : p % Pow2(base + (j - 1)) = 0

\* C12: in both coalescing passes every PFN of the region set of order k is a
\* multiple of 1 << k: the block-start PFNs appended to the movable collection
\* are multiples of 512, those appended to the free collection multiples of
\* 1024, and every PFN build_list produces for order k a multiple of 1 << k.
C12_RegionsAligned ==
    /\ \A j \in DOMAIN movable_2mb_pfns :
          movable_2mb_pfns[j] % pageblock_nr_pages = 0
    /\ \A j \in DOMAIN free_4mb_pfns :
          free_4mb_pfns[j] % MAX_ORDER_NR_PAGES = 0
    /\ Aligned(movable_blocks_by_size, pageblock_order)
    /\ Aligned(free_blocks_by_size, MAX_ORDER - 1)

=============================================================================
